---- MODULE Spec2Model ----
(***************************************************************************)
(* JSON-RPC client (client.go): ReadMsg decodes and classifies one frame   *)
(* read off the connection; WriteRequest / WriteNotification /             *)
(* WriteResponse / WriteMsg encode one message and hand it to the          *)
(* connection.  The connection (neptulon.Conn) and the identifier          *)
(* generator (neptulon.GenID) are external: what they return is a          *)
(* nondeterministic input of each call.                                    *)
(***************************************************************************)
EXTENDS Integers, Sequences, FiniteSets, TLC

VARIABLES
    wire,   \* the frames handed to conn.Write, in call order
    call,   \* the last call made on the Client: its name and its inputs
    ret,    \* what that call returned
    inbox,    \* the frames that arrived at the connection and were not read yet
    arrived,  \* every frame that arrived at the connection, in arrival order
    taken,    \* the positions in arrived that conn.Read returned, in read order
    readers,  \* the callers of ReadMsg that run concurrently
    issued,   \* the identifiers neptulon.GenID has returned
    writers   \* the callers of WriteRequest that run concurrently

\* The state of the concurrent callers, which the calls of a single caller
\* leave alone.
concVars == <<inbox, arrived, taken, readers, issued, writers>>
vars == <<wire, call, ret, inbox, arrived, taken, readers, issued, writers>>

\* Most frames handed to the connection in one run.
MaxWire == 2
\* Most frames that arrive at the connection in one run.
MaxFrames == 2
\* Most frames written to a connection whose other end is read.
MaxLoop == 1

----------------------------------------------------------------------------
(* Go error values *)

NoErr == "nil"
SyntaxError == "json.SyntaxError"
UnmarshalTypeError == "json.UnmarshalTypeError"
UnsupportedTypeError == "json.UnsupportedTypeError"
MalformedMessage == "Received a malformed message."
ReadErrors == {"conn.Read: i/o timeout", "conn.Read: connection closed"}
WriteError == "conn.Write: error"
GenIDError == "GenID: error"

----------------------------------------------------------------------------
(* Go values held in an interface{}: t is the dynamic type, v the value as  *)
(* JSON text ("" where there is none), type the pointee type of a pointer   *)
(* or the element type of a slice.                                          *)

GoNil == [t |-> "nil", type |-> "", v |-> ""]
GoInt(n) == [t |-> "int", type |-> "", v |-> n]
GoChan == [t |-> "chan", type |-> "", v |-> ""]
GoSlice(elems) ==
    IF elems = <<>> THEN [t |-> "slice", type |-> "", v |-> ""]
    ELSE [t |-> "slice", type |-> elems[1].t, v |-> elems[1].v]
Float64(n) == [t |-> "float64", type |-> "", v |-> n]
GoString(s) == [t |-> "string", type |-> "", v |-> s]
Ptr(T, c) == [t |-> "ptr", type |-> T, v |-> c]
RawMessage(raw) == [t |-> "json.RawMessage", type |-> "", v |-> raw]

\* The targets a caller can pass as resultData / paramsData: nil, or a
\* pointer to a zero int or string variable.
Targets == {GoNil, Ptr("int", "0"), Ptr("string", "")}

----------------------------------------------------------------------------
(* Frames.  A frame that is a JSON object is given by its fields; a raw     *)
(* field (params, result, error.data) is its JSON text, "" when the field   *)
(* is absent (a nil json.RawMessage).  id and method are "" when absent.    *)

Ids == {"", "7"}
Methods == {"", "ping"}
RawVals == {"", "null", "42"}
\* The error field of a frame: absent, a JSON object with a number code, a
\* string message and any data, or a JSON value that is no such object (the
\* string in "error":"x"), which the envelope's Error cannot receive.
NoErrObj ==
    [present |-> FALSE, wellTyped |-> TRUE, code |-> 0, message |-> "", data |-> ""]
ErrObj(c, m, d) ==
    [present |-> TRUE, wellTyped |-> TRUE, code |-> c, message |-> m, data |-> d]
IllTypedErr ==
    [present |-> TRUE, wellTyped |-> FALSE, code |-> 0, message |-> "", data |-> ""]
ErrObjs ==
    {NoErrObj, IllTypedErr} \cup {ErrObj(-32601, "method not found", d) : d \in RawVals}

Object(i, m, p, r, e) ==
    [kind |-> "object", id |-> i, method |-> m, params |-> p, result |-> r, error |-> e]
ObjectFrames ==
    {Object(i, m, p, r, e) : i \in Ids, m \in Methods, p \in RawVals,
                             r \in RawVals, e \in ErrObjs}
\* Frames that are no JSON object of strings: not JSON at all (not json),
\* a JSON array ([1,2]), the JSON literal null, and an object whose id is
\* a number ({"id":7}).
OtherFrame(k) ==
    [kind |-> k, id |-> "", method |-> "", params |-> "", result |-> "", error |-> NoErrObj]
OtherFrames == {OtherFrame(k) : k \in {"syntax", "array", "null", "badfield"}}
Frames == ObjectFrames \cup OtherFrames

\* conn.Read returns a frame, or fails.
ReadOutcomes ==
    {[err |-> NoErr, data |-> f] : f \in Frames}
        \cup {[err |-> e, data |-> OtherFrame("none")] : e \in ReadErrors}

----------------------------------------------------------------------------
(* Messages *)

NilReq == [isNil |-> TRUE, ID |-> "", Method |-> "", Params |-> GoNil]
NilResError == [isNil |-> TRUE, Code |-> 0, Message |-> "", Data |-> GoNil]
NilRes == [isNil |-> TRUE, ID |-> "", Result |-> GoNil, Error |-> NilResError]
NilNot == [isNil |-> TRUE, Method |-> "", Params |-> GoNil]

Request(id, method, params) ==
    [isNil |-> FALSE, ID |-> id, Method |-> method, Params |-> params]
ResError(code, message, data) ==
    [isNil |-> FALSE, Code |-> code, Message |-> message, Data |-> data]
Response(id, result, error) ==
    [isNil |-> FALSE, ID |-> id, Result |-> result, Error |-> error]
Notification(method, params) ==
    [isNil |-> FALSE, Method |-> method, Params |-> params]

\* The envelope ReadMsg unmarshals a frame into; its Error is a pointer to
\* an error envelope whose Data is raw JSON.
resError(error) ==
    [isNil |-> ~error.present, Code |-> error.code, Message |-> error.message,
     Data |-> error.data]
message(id, method, params, result, error) ==
    [ID |-> id, Method |-> method, Params |-> params, Result |-> result,
     Error |-> resError(error)]

----------------------------------------------------------------------------
(* json.Unmarshal *)

JSONKind(raw) ==
    CASE raw = "null" -> "null"
      [] raw = "42" -> "number"
      [] raw = "[42]" -> "array"
      [] OTHER -> "string"

\* The value json.Unmarshal stores in a nil interface{}.
Generic(raw) ==
    CASE JSONKind(raw) = "number" -> Float64(raw)
      [] JSONKind(raw) = "string" -> GoString(raw)
      [] OTHER -> [t |-> "[]interface{}", type |-> "", v |-> raw]

\* json.Unmarshal(raw, &p) where the interface p holds nil or a pointer to
\* the caller's target: empty input is a syntax error; JSON null sets the
\* interface to nil; a pointer is decoded into when the JSON value fits its
\* type; a nil interface receives the generic value.
Unmarshal(raw, p) ==
    CASE raw = "" -> [err |-> SyntaxError, v |-> p]
      [] raw = "null" -> [err |-> NoErr, v |-> GoNil]
      [] raw \notin {"", "null"} /\ p.t = "ptr" ->
            IF (p.type = "int" /\ JSONKind(raw) = "number")
                 \/ (p.type = "string" /\ JSONKind(raw) = "string")
            THEN [err |-> NoErr, v |-> Ptr(p.type, raw)]
            ELSE [err |-> UnmarshalTypeError, v |-> p]
      [] OTHER -> [err |-> NoErr, v |-> Generic(raw)]

\* json.Unmarshal(data, &msg) of a frame into the envelope.
UnmarshalMessage(data) ==
    LET zero == message("", "", "", "", NoErrObj) IN
    CASE data.kind = "syntax" -> [err |-> SyntaxError, msg |-> zero]
      [] data.kind \in {"array", "badfield"} -> [err |-> UnmarshalTypeError, msg |-> zero]
      [] data.kind = "null" -> [err |-> NoErr, msg |-> zero]
      [] data.kind = "object" /\ ~data.error.wellTyped ->
            [err |-> UnmarshalTypeError,
             msg |-> message(data.id, data.method, data.params, data.result, NoErrObj)]
      [] OTHER -> [err |-> NoErr,
                   msg |-> message(data.id, data.method, data.params,
                                   data.result, data.error)]

----------------------------------------------------------------------------
(* ReadMsg *)

Returned(req, res, not, err) == [req |-> req, res |-> res, not |-> not, err |-> err]

\* The request branch.
DecodeRequest(msg, paramsData) ==
    LET u == Unmarshal(msg.Params, paramsData) IN
    IF u.err # NoErr
    THEN Returned(NilReq, NilRes, NilNot, u.err)
    ELSE Returned(Request(msg.ID, msg.Method, u.v), NilRes, NilNot, NoErr)

\* Mutant of DecodeResponse: the result is decoded from params.
DecodeResponseFromParams(msg, resultData) ==
    LET u == IF msg.Params # ""
             THEN Unmarshal(msg.Params, resultData)
             ELSE [err |-> NoErr, v |-> resultData]
    IN  IF u.err # NoErr
        THEN Returned(NilReq, NilRes, NilNot, u.err)
        ELSE IF ~msg.Error.isNil
             THEN LET d == Unmarshal(msg.Error.Data, GoNil) IN
                  Returned(NilReq,
                           Response(msg.ID, u.v,
                                    ResError(msg.Error.Code, msg.Error.Message, d.v)),
                           NilNot, d.err)
             ELSE Returned(NilReq, Response(msg.ID, u.v, NilResError), NilNot, NoErr)

\* Mutant of DecodeResponse: the result target is taken up only when the
\* message carries a result.
DecodeResponseTargetDropped(msg, resultData) ==
    LET u == IF msg.Result # ""
             THEN Unmarshal(msg.Result, resultData)
             ELSE [err |-> NoErr, v |-> GoNil]
    IN  IF u.err # NoErr
        THEN Returned(NilReq, NilRes, NilNot, u.err)
        ELSE IF ~msg.Error.isNil
             THEN LET d == Unmarshal(msg.Error.Data, GoNil) IN
                  Returned(NilReq,
                           Response(msg.ID, u.v,
                                    ResError(msg.Error.Code, msg.Error.Message, d.v)),
                           NilNot, d.err)
             ELSE Returned(NilReq, Response(msg.ID, u.v, NilResError), NilNot, NoErr)

\* Mutant of DecodeResponse: the result is decoded without testing that the
\* message carries one.
DecodeResponseNoPresenceTest(msg, resultData) ==
    LET u == Unmarshal(msg.Result, resultData)
    IN  IF u.err # NoErr
        THEN Returned(NilReq, NilRes, NilNot, u.err)
        ELSE IF ~msg.Error.isNil
             THEN LET d == Unmarshal(msg.Error.Data, GoNil) IN
                  Returned(NilReq,
                           Response(msg.ID, u.v,
                                    ResError(msg.Error.Code, msg.Error.Message, d.v)),
                           NilNot, d.err)
             ELSE Returned(NilReq, Response(msg.ID, u.v, NilResError), NilNot, NoErr)

\* The response branch.
DecodeResponse(msg, resultData) ==
    LET u == IF msg.Result # ""
             THEN Unmarshal(msg.Result, resultData)
             ELSE [err |-> NoErr, v |-> resultData]
    IN  IF u.err # NoErr
        THEN Returned(NilReq, NilRes, NilNot, u.err)
        ELSE IF ~msg.Error.isNil
             THEN LET d == Unmarshal(msg.Error.Data, GoNil) IN
                  Returned(NilReq,
                           Response(msg.ID, u.v,
                                    ResError(msg.Error.Code, msg.Error.Message, d.v)),
                           NilNot, d.err)
             ELSE Returned(NilReq, Response(msg.ID, u.v, NilResError), NilNot, NoErr)

\* The branch of a message with no id: the notification is set when there is
\* a method, and the malformed-message error is assigned in either case.
DecodeNoID(msg) ==
    Returned(NilReq, NilRes,
             IF msg.Method # ""
             THEN Notification(msg.Method, RawMessage(msg.Params))
             ELSE NilNot,
             MalformedMessage)

\* Mutant of Classify: the request branch does not return, and the response
\* branch runs after it.
ClassifyFallThrough(msg, resultData, paramsData) ==
    IF msg.ID # ""
    THEN IF msg.Method # ""
         THEN LET q == DecodeRequest(msg, paramsData)
                  s == DecodeResponse(msg, resultData)
              IN  IF q.err # NoErr THEN q
                  ELSE Returned(q.req, s.res, NilNot, s.err)
         ELSE DecodeResponse(msg, resultData)
    ELSE DecodeNoID(msg)

\* Classification of the envelope by id and method.
Classify(msg, resultData, paramsData) ==
    IF msg.ID # ""
    THEN IF msg.Method # ""
         THEN DecodeRequest(msg, paramsData)
         ELSE DecodeResponse(msg, resultData)
    ELSE DecodeNoID(msg)

\* Mutant of ReadMsgResult: the error of conn.Read is not tested and the
\* data, empty after a failed read, goes on to json.Unmarshal.
ReadMsgResultUncheckedRead(read, resultData, paramsData) ==
    LET m == UnmarshalMessage(IF read.err # NoErr THEN OtherFrame("syntax")
                              ELSE read.data)
    IN  IF m.err # NoErr
        THEN Returned(NilReq, NilRes, NilNot, m.err)
        ELSE Classify(m.msg, resultData, paramsData)

\* ReadMsg on what conn.Read returned.
ReadMsgResult(read, resultData, paramsData) ==
    IF read.err # NoErr
    THEN Returned(NilReq, NilRes, NilNot, read.err)
    ELSE LET m == UnmarshalMessage(read.data) IN
         IF m.err # NoErr
         THEN Returned(NilReq, NilRes, NilNot, m.err)
         ELSE Classify(m.msg, resultData, paramsData)

NoCall == [op |-> "none"]

ReadMsg(read, resultData, paramsData) ==
    /\ call' = [op |-> "ReadMsg", read |-> read,
                resultData |-> resultData, paramsData |-> paramsData]
    /\ ret' = ReadMsgResult(read, resultData, paramsData)
    /\ UNCHANGED wire
    /\ UNCHANGED concVars

----------------------------------------------------------------------------
(* json.Marshal and the write operations *)

\* What callers pass as params, result and error data: nil, an int, or a
\* channel (which json.Marshal cannot encode).
WriteVals == {GoNil, GoInt("42"), GoChan}
\* The arguments of the variadic forms: none, or one.
WriteArgs == {<<>>, <<GoInt("42")>>, <<GoChan>>}
WriteMethods == {"ping"}
WriteIds == {"7"}
WriteErrors ==
    {NilResError} \cup {ResError(-32601, "method not found", d) : d \in {GoNil, GoInt("42")}}
\* neptulon.GenID returns an identifier, or fails.
GenOutcomes ==
    {[id |-> i, err |-> NoErr] : i \in {"7", "8"}} \cup {[id |-> "", err |-> GenIDError]}
\* conn.Write succeeds or fails.
WriteOutcomes == {NoErr, WriteError}

\* json.Marshal of an interface{} field that is omitted when empty: "" is
\* the omitted field.  A nil slice held in the interface is not empty and
\* encodes as null.
MarshalField(v) ==
    CASE v.t = "nil" -> [err |-> NoErr, raw |-> ""]
      [] v.t = "chan" -> [err |-> UnsupportedTypeError, raw |-> ""]
      [] v.t = "slice" ->
            IF v.type = "" THEN [err |-> NoErr, raw |-> "null"]
            ELSE IF v.type = "chan" THEN [err |-> UnsupportedTypeError, raw |-> ""]
            ELSE [err |-> NoErr, raw |-> "[" \o v.v \o "]"]
      [] OTHER -> [err |-> NoErr, raw |-> v.v]

\* json.Marshal of a Request, Response or Notification value.
Marshal(msg) ==
    LET none == OtherFrame("none") IN
    IF "Result" \in DOMAIN msg
    THEN LET r == MarshalField(msg.Result)
             d == MarshalField(msg.Error.Data)
         IN  IF r.err # NoErr THEN [err |-> r.err, data |-> none]
             ELSE IF msg.Error.isNil
             THEN [err |-> NoErr, data |-> Object(msg.ID, "", "", r.raw, NoErrObj)]
             ELSE IF d.err # NoErr THEN [err |-> d.err, data |-> none]
             ELSE [err |-> NoErr,
                   data |-> Object(msg.ID, "", "", r.raw,
                                   ErrObj(msg.Error.Code, msg.Error.Message, d.raw))]
    ELSE LET p == MarshalField(msg.Params) IN
         IF p.err # NoErr THEN [err |-> p.err, data |-> none]
         ELSE [err |-> NoErr,
               data |-> Object(IF "ID" \in DOMAIN msg THEN msg.ID ELSE "",
                               msg.Method, p.raw, "", NoErrObj)]

\* Mutant of WriteMsgResult: the write is not skipped when encoding fails.
WriteMsgResultNoReturn(msg, w) ==
    LET m == Marshal(msg) IN
    [err |-> IF m.err # NoErr THEN m.err ELSE w, wire |-> Append(wire, m.data)]

\* Mutant of WriteMsgResult: the new frame is put in front of the earlier ones.
WriteMsgResultPrepend(msg, w) ==
    LET m == Marshal(msg) IN
    IF m.err # NoErr
    THEN [err |-> m.err, wire |-> wire]
    ELSE [err |-> w, wire |-> <<m.data>> \o wire]

\* WriteMsg: w is what conn.Write returns if it is called.
WriteMsgResult(msg, w) ==
    LET m == Marshal(msg) IN
    IF m.err # NoErr
    THEN [err |-> m.err, wire |-> wire]
    ELSE [err |-> w, wire |-> Append(wire, m.data)]

\* Mutant of WriteRequestResult: the generator's error is returned only
\* after the request was written.
WriteRequestResultLateCheck(method, params, gen, w) ==
    LET r == WriteMsgResult(Request(gen.id, method, params), w) IN
    IF gen.err # NoErr
    THEN [reqID |-> "", err |-> gen.err, wire |-> r.wire]
    ELSE [reqID |-> gen.id, err |-> r.err, wire |-> r.wire]

\* Mutant of WriteRequestResult: the method is put where the generated
\* identifier belongs.
WriteRequestResultMethodAsID(method, params, gen, w) ==
    IF gen.err # NoErr
    THEN [reqID |-> "", err |-> gen.err, wire |-> wire]
    ELSE LET r == WriteMsgResult(Request(method, method, params), w) IN
         [reqID |-> method, err |-> r.err, wire |-> r.wire]

\* Mutant of WriteRequestResult: no identifier is returned when the write
\* fails.
WriteRequestResultNoIDOnError(method, params, gen, w) ==
    IF gen.err # NoErr
    THEN [reqID |-> "", err |-> gen.err, wire |-> wire]
    ELSE LET r == WriteMsgResult(Request(gen.id, method, params), w) IN
         [reqID |-> IF r.err # NoErr THEN "" ELSE gen.id, err |-> r.err, wire |-> r.wire]

\* WriteRequest: gen is what neptulon.GenID returns.
WriteRequestResult(method, params, gen, w) ==
    IF gen.err # NoErr
    THEN [reqID |-> "", err |-> gen.err, wire |-> wire]
    ELSE LET r == WriteMsgResult(Request(gen.id, method, params), w) IN
         [reqID |-> gen.id, err |-> r.err, wire |-> r.wire]

WriteRequestArrResult(method, params, gen, w) ==
    WriteRequestResult(method, GoSlice(params), gen, w)

WriteNotificationResult(method, params, w) ==
    WriteMsgResult(Notification(method, params), w)

WriteNotificationArrResult(method, params, w) ==
    WriteNotificationResult(method, GoSlice(params), w)

WriteResponseResult(id, result, err, w) ==
    WriteMsgResult(Response(id, result, err), w)

Messages ==
    {Request(i, m, p) : i \in {"7", "8"}, m \in WriteMethods, p \in WriteVals}
        \cup {Notification(m, p) : m \in WriteMethods, p \in WriteVals}
        \cup {Response(i, r, e) : i \in WriteIds, r \in WriteVals, e \in WriteErrors}

WriteRequest(method, params, gen, w) ==
    /\ Len(wire) < MaxWire
    /\ LET r == WriteRequestResult(method, params, gen, w) IN
        /\ call' = [op |-> "WriteRequest", msg |-> Request(gen.id, method, params),
                    gen |-> gen, write |-> w]
        /\ ret' = [reqID |-> r.reqID, err |-> r.err]
        /\ wire' = r.wire
    /\ UNCHANGED concVars

WriteRequestArr(method, params, gen, w) ==
    /\ Len(wire) < MaxWire
    /\ LET r == WriteRequestArrResult(method, params, gen, w) IN
        /\ call' = [op |-> "WriteRequestArr",
                    msg |-> Request(gen.id, method, GoSlice(params)),
                    gen |-> gen, write |-> w]
        /\ ret' = [reqID |-> r.reqID, err |-> r.err]
        /\ wire' = r.wire
    /\ UNCHANGED concVars

WriteNotification(method, params, w) ==
    /\ Len(wire) < MaxWire
    /\ LET r == WriteNotificationResult(method, params, w) IN
        /\ call' = [op |-> "WriteNotification", msg |-> Notification(method, params),
                    write |-> w]
        /\ ret' = [err |-> r.err]
        /\ wire' = r.wire
    /\ UNCHANGED concVars

WriteNotificationArr(method, params, w) ==
    /\ Len(wire) < MaxWire
    /\ LET r == WriteNotificationArrResult(method, params, w) IN
        /\ call' = [op |-> "WriteNotificationArr",
                    msg |-> Notification(method, GoSlice(params)), write |-> w]
        /\ ret' = [err |-> r.err]
        /\ wire' = r.wire
    /\ UNCHANGED concVars

WriteResponse(id, result, err, w) ==
    /\ Len(wire) < MaxWire
    /\ LET r == WriteResponseResult(id, result, err, w) IN
        /\ call' = [op |-> "WriteResponse", msg |-> Response(id, result, err),
                    write |-> w]
        /\ ret' = [err |-> r.err]
        /\ wire' = r.wire
    /\ UNCHANGED concVars

WriteMsg(msg, w) ==
    /\ Len(wire) < MaxWire
    /\ LET r == WriteMsgResult(msg, w) IN
        /\ call' = [op |-> "WriteMsg", msg |-> msg, write |-> w]
        /\ ret' = [err |-> r.err]
        /\ wire' = r.wire
    /\ UNCHANGED concVars

----------------------------------------------------------------------------
(* Callers that run concurrently on one Client.  A ReadMsg call is its     *)
(* conn.Read and then the decoding of what it read, which touches nothing  *)
(* shared; a WriteRequest call is its neptulon.GenID and then its WriteMsg. *)
(* conn.Read hands each frame to one call, in arrival order, and fails     *)
(* when the deadline passes with no frame there.                           *)

Readers == {"r1", "r2"}
Writers == {"w1", "w2"}

\* The frames of the peer of the concurrent readers: not JSON, the empty
\* object, a request and a response.
QueueFrames ==
    {OtherFrame("syntax"), Object("", "", "", "", NoErrObj),
     Object("7", "ping", "42", "", NoErrObj), Object("7", "", "", "42", NoErrObj)}
QueueTargets == {GoNil, Ptr("string", "")}
\* The identifiers a correct generator draws from, none of them twice.
FreshIds == {"7", "8", "9"}

IdleReader ==
    [pc |-> "idle", read |-> [err |-> NoErr, data |-> OtherFrame("none")],
     resultData |-> GoNil, paramsData |-> GoNil, took |-> 0,
     ret |-> Returned(NilReq, NilRes, NilNot, NoErr)]
IdleWriter ==
    [pc |-> "idle", method |-> "", params |-> GoNil,
     gen |-> [id |-> "", err |-> NoErr], ret |-> [reqID |-> "", err |-> NoErr]]

\* A frame arrives from the peer.
Arrive(f) ==
    /\ Len(arrived) < MaxFrames
    /\ arrived' = Append(arrived, f)
    /\ inbox' = Append(inbox, f)
    /\ UNCHANGED <<wire, call, ret, taken, readers, issued, writers>>

\* Mutant of ReadMsgRead: a frame that is not JSON is dropped and the next
\* one is read in its place.
ReadMsgReadSkipping(q) ==
    IF q = <<>>
    THEN [read |-> [err |-> "conn.Read: i/o timeout", data |-> OtherFrame("none")],
          inbox |-> q]
    ELSE IF Len(q) > 1 /\ UnmarshalMessage(Head(q)).err # NoErr
    THEN [read |-> [err |-> NoErr, data |-> q[2]], inbox |-> Tail(Tail(q))]
    ELSE [read |-> [err |-> NoErr, data |-> Head(q)], inbox |-> Tail(q)]

\* What one ReadMsg call reads off the connection whose pending frames are
\* q: its single conn.Read returns the oldest frame, or the deadline error.
ReadMsgRead(q) ==
    IF q = <<>>
    THEN [read |-> [err |-> "conn.Read: i/o timeout", data |-> OtherFrame("none")],
          inbox |-> q]
    ELSE [read |-> [err |-> NoErr, data |-> Head(q)], inbox |-> Tail(q)]

\* Reader r calls ReadMsg: its conn.Read returns.
ReadBegin(r, resultData, paramsData) ==
    /\ readers[r].pc = "idle"
    /\ LET got == ReadMsgRead(inbox)
           pos == IF got.read.err = NoErr THEN Len(arrived) - Len(got.inbox) ELSE 0
       IN  /\ inbox' = got.inbox
           /\ taken' = IF pos = 0 THEN taken ELSE Append(taken, pos)
           /\ readers' = [readers EXCEPT ![r] =
                            [pc |-> "decoding", read |-> got.read,
                             resultData |-> resultData, paramsData |-> paramsData,
                             took |-> pos, ret |-> IdleReader.ret]]
    /\ UNCHANGED <<wire, call, ret, arrived, issued, writers>>

\* Reader r decodes what it read and returns.
ReadEnd(r) ==
    /\ readers[r].pc = "decoding"
    /\ readers' = [readers EXCEPT ![r].pc = "idle",
                                  ![r].ret = ReadMsgResult(readers[r].read,
                                                           readers[r].resultData,
                                                           readers[r].paramsData)]
    /\ UNCHANGED <<wire, call, ret, inbox, arrived, taken, issued, writers>>

\* Writer w calls WriteRequest: neptulon.GenID returns an identifier it has
\* not returned before, or fails, and then the call returns at once.
WriteBegin(w, method, params, gen) ==
    /\ writers[w].pc = "idle"
    /\ Len(wire) < MaxWire
    /\ gen.err = NoErr => gen.id \notin issued
    /\ issued' = IF gen.err = NoErr THEN issued \cup {gen.id} ELSE issued
    /\ writers' = [writers EXCEPT ![w] =
                      IF gen.err = NoErr
                      THEN [pc |-> "writing", method |-> method, params |-> params,
                            gen |-> gen, ret |-> IdleWriter.ret]
                      ELSE LET r == WriteRequestResult(method, params, gen, NoErr) IN
                           [pc |-> "idle", method |-> method, params |-> params,
                            gen |-> gen, ret |-> [reqID |-> r.reqID, err |-> r.err]]]
    /\ UNCHANGED <<wire, call, ret, inbox, arrived, taken, readers>>

\* Writer w encodes its request, hands it to conn.Write and returns.
WriteEnd(w, wo) ==
    /\ writers[w].pc = "writing"
    /\ LET r == WriteRequestResult(writers[w].method, writers[w].params,
                                   writers[w].gen, wo)
       IN  /\ wire' = r.wire
           /\ writers' = [writers EXCEPT ![w].pc = "idle",
                                         ![w].ret = [reqID |-> r.reqID, err |-> r.err]]
    /\ UNCHANGED <<call, ret, inbox, arrived, taken, readers, issued>>

\* The connection carries the oldest frame handed to conn.Write that it has
\* not carried yet to the other end, where a Client reads it.
Carry ==
    /\ Len(arrived) < Len(wire)
    /\ arrived' = Append(arrived, wire[Len(arrived) + 1])
    /\ inbox' = Append(inbox, wire[Len(arrived) + 1])
    /\ UNCHANGED <<wire, call, ret, taken, readers, issued, writers>>

\* The targets the reader at the other end passes.
LoopTargets == {GoNil, Ptr("int", "0")}

Init ==
    /\ wire = <<>>
    /\ call = NoCall
    /\ ret = Returned(NilReq, NilRes, NilNot, NoErr)
    /\ inbox = <<>>
    /\ arrived = <<>>
    /\ taken = <<>>
    /\ readers = [r \in Readers |-> IdleReader]
    /\ issued = {}
    /\ writers = [w \in Writers |-> IdleWriter]

NextRead ==
    \E read \in ReadOutcomes, resultData \in Targets, paramsData \in Targets :
        ReadMsg(read, resultData, paramsData)

NextWrite ==
    \/ \E m \in WriteMethods, p \in WriteVals, g \in GenOutcomes, w \in WriteOutcomes :
            WriteRequest(m, p, g, w)
    \/ \E m \in WriteMethods, p \in WriteArgs, g \in GenOutcomes, w \in WriteOutcomes :
            WriteRequestArr(m, p, g, w)
    \/ \E m \in WriteMethods, p \in WriteVals, w \in WriteOutcomes :
            WriteNotification(m, p, w)
    \/ \E m \in WriteMethods, p \in WriteArgs, w \in WriteOutcomes :
            WriteNotificationArr(m, p, w)
    \/ \E i \in WriteIds, r \in WriteVals, e \in WriteErrors, w \in WriteOutcomes :
            WriteResponse(i, r, e, w)
    \/ \E msg \in Messages, w \in WriteOutcomes : WriteMsg(msg, w)

\* Two callers of ReadMsg on a connection whose peer sends any frames.
NextReaders ==
    \/ \E f \in QueueFrames : Arrive(f)
    \/ \E r \in Readers, resultData \in QueueTargets, paramsData \in QueueTargets :
            ReadBegin(r, resultData, paramsData)
    \/ \E r \in Readers : ReadEnd(r)

\* Two callers of WriteRequest.
NextWriters ==
    \/ \E w \in Writers, m \in WriteMethods, p \in WriteVals,
          g \in {[id |-> i, err |-> NoErr] : i \in FreshIds}
                  \cup {[id |-> "", err |-> GenIDError]} :
            WriteBegin(w, m, p, g)
    \/ \E w \in Writers, wo \in WriteOutcomes : WriteEnd(w, wo)

\* One Client writes requests and notifications, the connection carries
\* them, and a Client at the other end reads them.
NextLoop ==
    \/ \E m \in WriteMethods, p \in WriteVals, g \in GenOutcomes, w \in WriteOutcomes :
            Len(wire) < MaxLoop /\ WriteRequest(m, p, g, w)
    \/ \E m \in WriteMethods, p \in WriteArgs, g \in GenOutcomes, w \in WriteOutcomes :
            Len(wire) < MaxLoop /\ WriteRequestArr(m, p, g, w)
    \/ \E m \in WriteMethods, p \in WriteVals, w \in WriteOutcomes :
            Len(wire) < MaxLoop /\ WriteNotification(m, p, w)
    \/ \E m \in WriteMethods, p \in WriteArgs, w \in WriteOutcomes :
            Len(wire) < MaxLoop /\ WriteNotificationArr(m, p, w)
    \/ Carry
    \/ \E resultData \in LoopTargets, paramsData \in LoopTargets :
            ReadBegin("r1", resultData, paramsData)
    \/ ReadEnd("r1")

Next == NextRead \/ NextWrite \/ NextReaders \/ NextWriters \/ NextLoop

\* The reader alone: every frame the connection can deliver, every target.
SpecRead == Init /\ [][NextRead]_vars
\* The writer alone.
SpecWrite == Init /\ [][NextWrite]_vars
\* Concurrent readers alone.
SpecReaders == Init /\ [][NextReaders]_vars
\* Concurrent writers of requests alone.
SpecWriters == Init /\ [][NextWriters]_vars
\* A writer, the connection and a reader at its other end.
SpecLoop == Init /\ [][NextLoop]_vars
\* Everything together.
Spec == Init /\ [][Next]_vars
----------------------------------------------------------------------------
(* Properties of ReadMsg, checked under SpecRead *)

\* The last call was a ReadMsg whose conn.Read returned a frame.
GotFrame == call.op = "ReadMsg" /\ call.read.err = NoErr
\* That frame.
Frame == call.read.data
GotObject == GotFrame /\ Frame.kind = "object"
\* How many of the three returned messages are set.
SetCount ==
    (IF ret.req.isNil THEN 0 ELSE 1) + (IF ret.res.isNil THEN 0 ELSE 1)
        + (IF ret.not.isNil THEN 0 ELSE 1)
\* A params or result field that is present decodes into the target: JSON
\* null into anything, the number into no target or an int.
Decodes(raw, target) ==
    raw = "null" \/ (raw = "42" /\ target \in {GoNil, Ptr("int", "0")})
\* The Go value such a field decodes to.
Decoded(raw, target) ==
    CASE raw = "null" -> GoNil
      [] raw = "42" /\ target = GoNil -> Float64("42")
      [] OTHER -> Ptr(target.type, raw)

\* C1: every ReadMsg call that returns no error sets exactly one of the
\* request, the response and the notification, and every call that returns
\* an error sets none of them.
C1_ExactlyOneOrNone ==
    call.op = "ReadMsg" =>
        IF ret.err = NoErr THEN SetCount = 1 ELSE SetCount = 0

\* C2: a frame with no id and a method is returned as a Notification with
\* that method and no error, and neither a Request nor a Response.
C2_NotificationNoError ==
    (GotObject /\ Frame.id = "" /\ Frame.method # "") =>
        /\ ~ret.not.isNil
        /\ ret.not.Method = Frame.method
        /\ ret.err = NoErr
        /\ ret.req.isNil
        /\ ret.res.isNil

\* C3: a frame with an id and a method whose params decode into the params
\* target is returned as a Request with that id and method, no error, no
\* Response and no Notification, whatever its result and error fields hold.
C3_RequestByIdAndMethod ==
    (GotObject /\ Frame.id # "" /\ Frame.method # ""
        /\ Decodes(Frame.params, call.paramsData)) =>
        /\ ~ret.req.isNil
        /\ ret.req.ID = Frame.id
        /\ ret.req.Method = Frame.method
        /\ ret.req.Params = Decoded(Frame.params, call.paramsData)
        /\ ret.err = NoErr
        /\ ret.res.isNil
        /\ ret.not.isNil

\* C4: a frame with an id, no method and no error, whose result is absent
\* or decodes into the result target, is returned as a Response with that
\* id, the decoded result and a nil Error, with no error, no Request and no
\* Notification, whatever its params field holds.
C4_ResponseWithResult ==
    (GotObject /\ Frame.id # "" /\ Frame.method = "" /\ ~Frame.error.present
        /\ (Frame.result = "" \/ Decodes(Frame.result, call.resultData))) =>
        /\ ~ret.res.isNil
        /\ ret.res.ID = Frame.id
        /\ ret.res.Result = IF Frame.result = "" THEN call.resultData
                            ELSE Decoded(Frame.result, call.resultData)
        /\ ret.res.Error.isNil
        /\ ret.err = NoErr
        /\ ret.req.isNil
        /\ ret.not.isNil

\* The frame {"id":"7","result":42} was read with no target and returned as
\* a Response holding 42.
C4_Witness ==
    /\ GotObject
    /\ Frame = Object("7", "", "", "42", NoErrObj)
    /\ call.resultData = GoNil
    /\ ~ret.res.isNil /\ ret.res.Result = Float64("42") /\ ret.err = NoErr

\* C5: a frame that is a JSON object with neither id nor method fails with
\* the malformed-message error and returns no Request, no Response and no
\* Notification, whatever its other fields hold.
C5_MalformedMessage ==
    (GotObject /\ Frame.id = "" /\ Frame.method = "") =>
        /\ ret.err = MalformedMessage
        /\ ret.req.isNil
        /\ ret.res.isNil
        /\ ret.not.isNil

\* C6: a frame with an id, a method and no params field is returned as a
\* Request with that id and method and nil Params, with no error.
C6_AbsentParamsRequest ==
    (GotObject /\ Frame.id # "" /\ Frame.method # "" /\ Frame.params = "") =>
        /\ ~ret.req.isNil
        /\ ret.req.ID = Frame.id
        /\ ret.req.Method = Frame.method
        /\ (call.paramsData = GoNil => ret.req.Params = GoNil)
        /\ ret.err = NoErr

\* C7: a response frame whose error object has a code and a message and no
\* data is returned as a Response whose Error has that code and message and
\* nil Data, with no error.
C7_AbsentErrorData ==
    (GotObject /\ Frame.id # "" /\ Frame.method = ""
        /\ Frame.error.present /\ Frame.error.wellTyped /\ Frame.error.data = ""
        /\ (Frame.result = "" \/ Decodes(Frame.result, call.resultData))) =>
        /\ ~ret.res.isNil
        /\ ~ret.res.Error.isNil
        /\ ret.res.Error.Code = Frame.error.code
        /\ ret.res.Error.Message = Frame.error.message
        /\ ret.res.Error.Data = GoNil
        /\ ret.err = NoErr

\* C8: a frame that is not valid JSON, or not a JSON object, fails with a
\* JSON error and never with the malformed-message error, and the
\* malformed-message error is returned only for a JSON object with neither
\* id nor method.
C8_ErrorKindsByCause ==
    /\ (GotFrame /\ Frame.kind # "object") =>
            ret.err \in {SyntaxError, UnmarshalTypeError}
    /\ (call.op = "ReadMsg" /\ ret.err = MalformedMessage) =>
            (GotObject /\ Frame.id = "" /\ Frame.method = "")

----------------------------------------------------------------------------
(* Properties of the write operations, checked under SpecWrite *)

\* C9: when the identifier generator fails, WriteRequest and WriteRequestArr
\* return its error and an empty identifier, and the frames handed to the
\* connection are the same after the call as before it.
C9_GenFailureWritesNothing ==
    [][(call'.op \in {"WriteRequest", "WriteRequestArr"} /\ call'.gen.err # NoErr) =>
            /\ ret'.err = call'.gen.err
            /\ ret'.reqID = ""
            /\ wire' = wire]_vars

\* A WriteRequest whose generator failed returned, a frame written before it
\* still being all the connection was handed.
C9_Witness ==
    /\ call.op = "WriteRequest"
    /\ call.gen.err = GenIDError
    /\ ret.err = GenIDError /\ ret.reqID = ""
    /\ Len(wire) = 1

\* The calls that reach WriteMsg.
ReachesWriteMsg(c) ==
    \/ c.op \in {"WriteNotification", "WriteNotificationArr", "WriteResponse", "WriteMsg"}
    \/ c.op \in {"WriteRequest", "WriteRequestArr"} /\ c.gen.err = NoErr

\* C10: every call that reaches WriteMsg hands the connection exactly one
\* frame, the encoding of its message, when encoding succeeds, and then
\* returns what conn.Write returned; when encoding fails it hands the
\* connection nothing and returns the encoder's error, which is not the
\* connection's write error.  This holds of every call, so also of the
\* calls that follow a failed encoding.
C10_OneFramePerWrite ==
    [][ReachesWriteMsg(call') =>
            IF \A v \in {call'.msg[f] : f \in DOMAIN call'.msg \cap {"Params", "Result"}}
                    \cup (IF "Error" \in DOMAIN call'.msg /\ ~call'.msg.Error.isNil
                          THEN {call'.msg.Error.Data} ELSE {}) :
                  v.t # "chan" /\ v.type # "chan"
            THEN /\ Len(wire') = Len(wire) + 1
                 /\ SubSeq(wire', 1, Len(wire)) = wire
                 /\ wire'[Len(wire')].kind = "object"
                 /\ ret'.err = call'.write
            ELSE /\ wire' = wire
                 /\ ret'.err = UnsupportedTypeError
                 /\ ret'.err # WriteError]_vars

\* A WriteMsg whose message could not be encoded returned the encoder's
\* error after an earlier write had handed the connection its frame.
C10_Witness ==
    /\ call.op = "WriteMsg"
    /\ "Params" \in DOMAIN call.msg
    /\ call.msg.Params = GoChan
    /\ ret.err = UnsupportedTypeError
    /\ Len(wire) = 1
\* C11: the frames handed to the connection are the encodings of the
\* messages of the calls whose encoding succeeded, in the order of the
\* calls: each such call puts the encoding of its own message after all
\* earlier frames, which stay as they were, and every other call leaves
\* the frames alone.
C11_WritesInCallOrder ==
    [][IF ReachesWriteMsg(call') /\ Marshal(call'.msg).err = NoErr
       THEN wire' = wire \o <<Marshal(call'.msg).data>>
       ELSE wire' = wire]_vars

\* A WriteResponse and then a WriteRequest were made: the response frame is
\* first, the request frame second.
C11_Witness ==
    /\ call.op = "WriteRequest"
    /\ Len(wire) = 2
    /\ wire[1] = Object("7", "", "", "42", NoErrObj)
    /\ wire[2] = Object("8", "ping", "42", "", NoErrObj)
----------------------------------------------------------------------------
(* Properties of concurrent callers *)

\* C12: every ReadMsg call whose conn.Read returns a frame consumes exactly
\* that one frame: the frames read are the first, second, ... of those that
\* arrived, none skipped and none read twice, the unread ones are still
\* pending in arrival order, no two calls hold the same frame, and a call
\* returns the outcome of the frame it consumed, whether or not the frames
\* before it decoded.
C12_OneFramePerRead ==
    /\ taken = [i \in 1..Len(taken) |-> i]
    /\ arrived = SubSeq(arrived, 1, Len(taken)) \o inbox
    /\ \A r \in Readers :
          /\ readers[r].took # 0 =>
                /\ readers[r].took \in 1..Len(taken)
                /\ readers[r].read = [err |-> NoErr, data |-> arrived[readers[r].took]]
          /\ (readers[r].took # 0 /\ readers[r].pc = "idle") =>
                readers[r].ret = ReadMsgResult(
                    [err |-> NoErr, data |-> arrived[readers[r].took]],
                    readers[r].resultData, readers[r].paramsData)
    /\ \A r1, r2 \in Readers :
          (r1 # r2 /\ readers[r1].took # 0) => readers[r1].took # readers[r2].took

\* Two frames arrived, the first not JSON: one caller read the first and
\* was refused it, and the other caller's read got the second frame, the
\* request, and returned it.
C12_Witness ==
    /\ arrived = <<OtherFrame("syntax"), Object("7", "ping", "42", "", NoErrObj)>>
    /\ inbox = <<>>
    /\ readers["r1"].took = 1 /\ readers["r1"].pc = "idle"
    /\ readers["r1"].ret.err = SyntaxError
    /\ readers["r2"].took = 2 /\ readers["r2"].pc = "idle"
    /\ ~readers["r2"].ret.req.isNil
----------------------------------------------------------------------------
(* Further properties of ReadMsg, checked under SpecRead *)

\* C13: when conn.Read fails, ReadMsg returns the connection's error itself
\* and no Request, Response or Notification; the error is none of the
\* errors decoding produces.
C13_ReadErrorUnchanged ==
    (call.op = "ReadMsg" /\ call.read.err # NoErr) =>
        /\ ret.err = call.read.err
        /\ ret.err \notin {SyntaxError, UnmarshalTypeError, MalformedMessage}
        /\ ret.req.isNil
        /\ ret.res.isNil
        /\ ret.not.isNil

\* A ReadMsg whose read timed out returned the timeout.
C13_Witness ==
    /\ call.op = "ReadMsg"
    /\ call.read.err = "conn.Read: i/o timeout"
    /\ ret.err = "conn.Read: i/o timeout"
----------------------------------------------------------------------------
(* Round trips, checked under SpecLoop *)

\* The params values json.Marshal can encode.
Encodable ==
    (WriteVals \cup {GoSlice(a) : a \in WriteArgs}) \ {GoChan, GoSlice(<<GoChan>>)}
\* The reader at the other end has returned from a ReadMsg that read frame f.
ReadBack(f) ==
    /\ readers["r1"].pc = "idle"
    /\ readers["r1"].took # 0
    /\ arrived[readers["r1"].took] = f
\* The value read is the value written: nil for nil and for the empty
\* argument list, the number for the int (in the int target when one was
\* passed), the sequence of the number for the one-argument list.
SemEq(written, got) ==
    CASE written = GoNil -> got = GoNil
      [] written = GoSlice(<<>>) -> got = GoNil
      [] written = GoInt("42") -> got \in {Float64("42"), Ptr("int", "42")}
      [] written = GoSlice(<<GoInt("42")>>) ->
            got = [t |-> "[]interface{}", type |-> "", v |-> "[42]"]
      [] OTHER -> FALSE

\* The reader passed no params target, or one of the type of the value p.
TargetFits(p) ==
    readers["r1"].paramsData = GoNil \/ p = GoInt("42")

\* C14: a request written with an identifier, a method and any encodable
\* params, carried to the other end and read there by ReadMsg (with no
\* params target or a fitting one), comes back as a Request with the same
\* identifier, the same method and equal params, with no error.
C14_RequestRoundTrip ==
    \A i \in {"7", "8"}, m \in WriteMethods, p \in Encodable :
        (ReadBack(Marshal(Request(i, m, p)).data) /\ TargetFits(p)) =>
            /\ readers["r1"].ret.err = NoErr
            /\ ~readers["r1"].ret.req.isNil
            /\ readers["r1"].ret.req.ID = i
            /\ readers["r1"].ret.req.Method = m
            /\ SemEq(p, readers["r1"].ret.req.Params)

\* C15: a notification written with a method and any encodable params,
\* carried to the other end and read there by ReadMsg, comes back as a
\* Notification with the same method whose Params is the decoded value,
\* equal to the params written, and as neither a Request nor a Response.
C15_NotificationRoundTrip ==
    \A m \in WriteMethods, p \in Encodable :
        ReadBack(Marshal(Notification(m, p)).data) =>
            /\ ~readers["r1"].ret.not.isNil
            /\ readers["r1"].ret.not.Method = m
            /\ SemEq(p, readers["r1"].ret.not.Params)
            /\ readers["r1"].ret.req.isNil
            /\ readers["r1"].ret.res.isNil

----------------------------------------------------------------------------
(* Further properties of ReadMsg, checked under SpecRead *)

\* The last call read a response frame: an object with an id and no method.
GotResponseFrame == GotObject /\ Frame.id # "" /\ Frame.method = ""

\* C16 as claimed: a response frame with only a result yields a Response
\* with a nil Error, and a response frame with only an error yields a
\* Response whose Result is nil, whether or not a result target was passed.
C16_ErrorOnlyResultNil ==
    GotResponseFrame =>
        /\ (Frame.result # "" /\ ~Frame.error.present /\ ~ret.res.isNil) =>
                ret.res.Error.isNil
        /\ (Frame.result = "" /\ Frame.error.present /\ ~ret.res.isNil) =>
                ret.res.Result = GoNil

\* C16 as amended: a response frame with only a result yields a Response
\* with a nil Error; a response frame with only an error yields a Response
\* with an Error whose Result is exactly what the caller passed as result
\* target: nil when none was passed, the target itself, not decoded into,
\* when one was.  Such a Response is returned whenever the error field is
\* an error object, and none is when it is not.
C16_ErrorOnlyResultIsTarget ==
    GotResponseFrame =>
        /\ (Frame.result # "" /\ ~Frame.error.present /\ ~ret.res.isNil) =>
                ret.res.Error.isNil
        /\ (Frame.result = "" /\ Frame.error.present /\ ~ret.res.isNil) =>
                /\ ~ret.res.Error.isNil
                /\ ret.res.Result = call.resultData
        /\ (Frame.result = "" /\ Frame.error.present) =>
                (ret.res.isNil <=> ~Frame.error.wellTyped)

\* An error-only response was read with a pointer to an int as result
\* target, and the Response returned holds that pointer as its Result.
C16_Witness ==
    /\ GotResponseFrame
    /\ Frame.result = "" /\ Frame.error.present /\ Frame.error.data = "42"
    /\ call.resultData = Ptr("int", "0")
    /\ ~ret.res.isNil /\ ret.res.Result = Ptr("int", "0")
    /\ ret.res.Error.Code = -32601 /\ ret.err = NoErr

\* C18: a response frame with no result field is never refused for its
\* result: the only errors the call can return come from its error field
\* (one that is no error object, or an error object's absent data); unless
\* the error field is no error object a Response is returned, and its
\* Result is nil when no result target was passed.
C18_AbsentResultSkipped ==
    (GotResponseFrame /\ Frame.result = "") =>
        /\ ret.err # NoErr =>
                (Frame.error.present /\ (~Frame.error.wellTyped \/ Frame.error.data = ""))
        /\ Frame.error.wellTyped =>
                /\ ~ret.res.isNil
                /\ ret.res.ID = Frame.id
                /\ (call.resultData = GoNil => ret.res.Result = GoNil)
        /\ ~Frame.error.wellTyped => ret.res.isNil

\* The frame {"id":"7"} was read with no target: a Response with a nil
\* Result and no error.
C18_Witness ==
    /\ GotResponseFrame
    /\ Frame = Object("7", "", "", "", NoErrObj)
    /\ call.resultData = GoNil
    /\ ~ret.res.isNil /\ ret.res.Result = GoNil /\ ret.err = NoErr

\* C20: no ReadMsg call, failed or not, returns more than one of the
\* request, the response and the notification.
C20_AtMostOneKind ==
    call.op = "ReadMsg" => SetCount <= 1

\* A call returned an error together with one message: the Response of a
\* frame that has an id, a method-less body, and an error object without
\* data.
C20_Witness ==
    /\ GotResponseFrame
    /\ Frame.error.present /\ Frame.error.data = ""
    /\ ret.err # NoErr
    /\ ~ret.res.isNil /\ ret.req.isNil /\ ret.not.isNil
    /\ SetCount = 1

----------------------------------------------------------------------------
(* Properties of concurrent WriteRequest calls, checked under SpecWriters *)

\* C17: with a generator that returns no identifier twice, two callers of
\* WriteRequest whose calls interleave in any way are never returned the
\* same identifier, and no two request frames handed to the connection
\* carry the same id.
C17_DistinctIdentifiers ==
    /\ \A a, b \in Writers :
            (a # b /\ writers[a].ret.reqID # "" /\ writers[b].ret.reqID # "") =>
                writers[a].ret.reqID # writers[b].ret.reqID
    /\ \A j, k \in 1..Len(wire) : j # k => wire[j].id # wire[k].id

\* Both callers have returned, each with its own identifier, and the frame
\* of the second caller reached the connection before that of the first.
C17_Witness ==
    /\ writers["w1"].pc = "idle" /\ writers["w2"].pc = "idle"
    /\ writers["w1"].ret = [reqID |-> "7", err |-> NoErr]
    /\ writers["w2"].ret = [reqID |-> "8", err |-> NoErr]
    /\ Len(wire) = 2
    /\ wire[1].id = "8" /\ wire[2].id = "7"

----------------------------------------------------------------------------
(* Further properties of the write operations, checked under SpecWrite *)

\* C19: whenever WriteRequest or WriteRequestArr hands a frame to the
\* connection, the identifier it returns is the id of that frame and the
\* identifier the generator just produced, also when conn.Write fails and
\* the identifier is returned together with the error.
C19_ReturnedIdIsFrameId ==
    [][(call'.op \in {"WriteRequest", "WriteRequestArr"} /\ Len(wire') = Len(wire) + 1) =>
            /\ ret'.reqID = wire'[Len(wire')].id
            /\ ret'.reqID = call'.gen.id
            /\ ret'.reqID # ""
            /\ ret'.err = call'.write]_vars

\* A WriteRequest handed its frame to a connection whose write failed, and
\* returned the frame's identifier with the error.
C19_Witness ==
    /\ call.op = "WriteRequest"
    /\ call.write = WriteError
    /\ ret.err = WriteError /\ ret.reqID = "8"
    /\ Len(wire) = 2 /\ wire[2].id = "8"
====
